---- MODULE Spec2Model ----
(***************************************************************************)
(* Model of src/src/index.ts: a task store kept in one JSON file           *)
(* (TASKS_FILE), the five taskAPI operations over it, and the two          *)
(* adapters (Express routes and the MCP tool handler) that call them.      *)
(*                                                                         *)
(* Every taskAPI operation is synchronous JavaScript, so inside one        *)
(* Node.js process nothing runs between its loadTasks and its saveTasks.   *)
(* TASKS_FILE is shared by every process started from the same directory   *)
(* (for instance an "--http" server and the "--mcp" server a desktop       *)
(* client spawns), and those processes interleave at the granularity of    *)
(* the file system calls: one step for the read, one for the write.        *)
(***************************************************************************)
EXTENDS Integers, Sequences, FiniteSets, TLC

\* ---------------------------------------------------------------- bounds
MaxClock == 2
MaxTasks == 2
MaxRequests == 5
MaxSharedRequests == 3
Procs == {"p1", "p2"}

\* ------------------------------------------------------------ JS values
\* The JavaScript value undefined (a missing property or argument).
Undefined == "<undefined>"

\* Number.prototype.toString is ToString of the TLC module: the decimal text.

\* Date.prototype.toISOString, an injective rendering of the instant n.
toISOString(n) == "T" \o ToString(n)

\* Property read o[k]: undefined when the object has no such key.
Get(o, k) == IF k \in DOMAIN o THEN o[k] ELSE Undefined

\* JavaScript truthiness of a string-or-undefined value (!v is its negation).
Truthy(v) == v # Undefined /\ v # ""

\* The keys of interface Task.
TaskKeys == {"id", "title", "completed", "createdAt"}

\* ----------------------------------------------------------- file / JSON
\* The content of TASKS_FILE: absent, text that is not JSON ("corrupt", which
\* includes the empty and the partially written file), JSON that is not an
\* array ("nonarray", e.g. {}), or a JSON array of objects.
FileOf(kind, items) == [kind |-> kind, items |-> items]

AbsentFile == FileOf("absent", <<>>)
CorruptFile == FileOf("corrupt", <<>>)
NonArrayFile == FileOf("nonarray", <<>>)

\* The string-valued keys of a task; completed is a boolean and never undefined.
StringKeys == {"id", "title", "createdAt"}

IsUndefined(o, k) == k \in StringKeys /\ o[k] = Undefined

\* A falsy value: undefined, false or the empty string.
IsFalsy(o, k) ==
  IF k \in StringKeys THEN o[k] = Undefined \/ o[k] = "" ELSE o[k] = FALSE

\* A serializer that drops every falsy property, not only the undefined ones.
StringifyObjectDropFalsy(o) ==
  LET keep == {k \in DOMAIN o : ~IsFalsy(o, k)}
  IN  [k \in keep |-> o[k]]

\* JSON.stringify of one object: a property whose value is undefined is omitted.
StringifyObject(o) ==
  LET keep == {k \in DOMAIN o : ~IsUndefined(o, k)}
  IN  [k \in keep |-> o[k]]

\* JSON.stringify(tasks, null, 2): the array's elements in order.
JSONstringify(tasks) ==
  FileOf("array", [i \in 1..Len(tasks) |-> StringifyObject(tasks[i])])

\* loadTasks(): [] when the file is absent, [] when JSON.parse throws (the
\* catch logs and falls through), otherwise whatever JSON.parse returned,
\* array or not.
loadTasks(f) ==
  CASE f.kind = "absent" -> [isArray |-> TRUE, items |-> <<>>]
    [] f.kind = "corrupt" -> [isArray |-> TRUE, items |-> <<>>]
    [] f.kind = "nonarray" -> [isArray |-> FALSE, items |-> <<>>]
    [] OTHER -> [isArray |-> TRUE, items |-> f.items]

\* fs.writeFileSync(TASKS_FILE, text) with flag 'w'. "ok": the file holds the
\* text. "openfail": the open threw (EACCES, EROFS), the file is untouched.
\* "writefail": the open truncated the file and the write threw (ENOSPC, EIO),
\* leaving an empty or partial text, which is not JSON.
WriteOutcomes == {"ok", "openfail", "writefail"}

writeFileSync(f, text, outcome) ==
  CASE outcome = "ok" -> text
    [] outcome = "openfail" -> f
    [] OTHER -> CorruptFile

\* A save that re-reads the file and keeps the records it finds there.
saveTasksMerged(f, tasks, outcome) ==
  writeFileSync(f, JSONstringify(loadTasks(f).items \o tasks), outcome)

\* saveTasks(tasks): the new file content; the catch swallows a throw.
saveTasks(f, tasks, outcome) == writeFileSync(f, JSONstringify(tasks), outcome)

\* TRUE when saveTasks lets the exception of writeFileSync escape. It never
\* does: the catch block only logs.
SaveThrowsPropagate(outcome) == outcome # "ok"

saveTasksThrows(outcome) == FALSE

\* ---------------------------------------------------------------- taskAPI
\* Array.prototype.findIndex((t) => t.id === id), 1-based, 0 for "none".
FindIndex(items, id) ==
  LET hits == {i \in 1..Len(items) : Get(items[i], "id") = id}
  IN  IF hits = {} THEN 0 ELSE CHOOSE i \in hits : \A j \in hits : i <= j

\* Array.prototype.splice(index, 1): the array without that element.
Splice(items, index) ==
  [i \in 1..(Len(items) - 1) |-> IF i < index THEN items[i] ELSE items[i + 1]]

\* The result of a taskAPI call: whether it threw, the value it returned
\* (a sequence of zero or one record, or the list), whether it reached
\* saveTasks and the array it passed to it.
ApiResult(threw, found, ret, saves, tasks) ==
  [threw |-> threw, found |-> found, ret |-> ret, saves |-> saves, tasks |-> tasks]

ApiThrow == ApiResult(TRUE, FALSE, <<>>, FALSE, <<>>)

\* The record createTask builds: t1 is Date.now(), t2 the instant of new Date().
NewTask(title, t1, t2) ==
  [id |-> ToString(t1), title |-> title, completed |-> FALSE,
   createdAt |-> toISOString(t2)]

\* A createTask that would put the new record first (unshift for push).
createTaskUnshift(ld, title, t1, t2) ==
  IF ~ld.isArray THEN ApiThrow
  ELSE LET task == NewTask(title, t1, t2)
       IN  ApiResult(FALSE, TRUE, <<task>>, TRUE, <<task>> \o ld.items)

\* createTask(title): tasks.push throws when loadTasks returned a non-array.
createTask(ld, title, t1, t2) ==
  IF ~ld.isArray THEN ApiThrow
  ELSE LET task == NewTask(title, t1, t2)
       IN  ApiResult(FALSE, TRUE, <<task>>, TRUE, Append(ld.items, task))

\* listTasks(): returns what loadTasks returned.
listTasks(ld) == ApiResult(FALSE, ld.isArray, ld.items, FALSE, ld.items)

\* A getTask that would save the collection it loaded before returning.
getTaskSaving(ld, id) ==
  IF ~ld.isArray THEN ApiThrow
  ELSE LET i == FindIndex(ld.items, id)
       IN  IF i = 0 THEN ApiResult(FALSE, FALSE, <<>>, TRUE, ld.items)
           ELSE ApiResult(FALSE, TRUE, <<ld.items[i]>>, TRUE, ld.items)

\* getTask(id): tasks.find throws on a non-array.
getTask(ld, id) ==
  IF ~ld.isArray THEN ApiThrow
  ELSE LET i == FindIndex(ld.items, id)
       IN  IF i = 0 THEN ApiResult(FALSE, FALSE, <<>>, FALSE, ld.items)
           ELSE ApiResult(FALSE, TRUE, <<ld.items[i]>>, FALSE, ld.items)

\* The record with completed flipped instead of set.
ToggleCompleted(o) ==
  [k \in (DOMAIN o) \cup {"completed"} |->
     IF k = "completed" THEN ~(("completed" \in DOMAIN o) /\ o[k]) ELSE o[k]]

\* The record with completed set to true (the assignment adds the key if absent).
SetCompleted(o) ==
  [k \in (DOMAIN o) \cup {"completed"} |-> IF k = "completed" THEN TRUE ELSE o[k]]

\* A completeTask that would complete every record with the id (filter for find).
completeTaskEvery(ld, id) ==
  IF ~ld.isArray THEN ApiThrow
  ELSE LET i == FindIndex(ld.items, id)
       IN  IF i = 0 THEN ApiResult(FALSE, FALSE, <<>>, FALSE, ld.items)
           ELSE LET tasks == [k \in 1..Len(ld.items) |->
                                IF Get(ld.items[k], "id") = id
                                THEN SetCompleted(ld.items[k]) ELSE ld.items[k]]
                IN  ApiResult(FALSE, TRUE, <<tasks[i]>>, TRUE, tasks)

\* completeTask(id).
completeTask(ld, id) ==
  IF ~ld.isArray THEN ApiThrow
  ELSE LET i == FindIndex(ld.items, id)
       IN  IF i = 0 THEN ApiResult(FALSE, FALSE, <<>>, FALSE, ld.items)
           ELSE LET tasks == [ld.items EXCEPT ![i] = SetCompleted(ld.items[i])]
                IN  ApiResult(FALSE, TRUE, <<tasks[i]>>, TRUE, tasks)

\* deleteTask(id).
deleteTask(ld, id) ==
  IF ~ld.isArray THEN ApiThrow
  ELSE LET i == FindIndex(ld.items, id)
       IN  IF i = 0 THEN ApiResult(FALSE, FALSE, <<>>, FALSE, ld.items)
           ELSE ApiResult(FALSE, TRUE, <<ld.items[i]>>, TRUE, Splice(ld.items, i))

\* --------------------------------------------------------------- responses
\* What an adapter sends back. status is the HTTP status (0 on the tool
\* adapter), ok is success: true / the absence of isError, msg the error or
\* the leading text, data the record(s) embedded, count the count field
\* (-1 when absent), ref the id or tool name quoted in the text.
Response(status, ok, msg, data, count, ref) ==
  [status |-> status, ok |-> ok, msg |-> msg, data |-> data, count |-> count,
   ref |-> ref]

NoResponse == Response(0, FALSE, "", <<>>, -1, "")

\* Routes whose GET /tasks would count the open tasks only.
HttpResponseOpenCount(name, r) ==
  CASE r.threw -> Response(500, FALSE, "Internal Server Error", <<>>, -1, "")
    [] name = "list" ->
         Response(200, TRUE, "", r.ret,
                  IF r.found THEN Len(SelectSeq(r.ret, LAMBDA t : ~t.completed))
                  ELSE -1, "")
    [] name = "create" -> Response(201, TRUE, "", r.ret, -1, "")
    [] ~r.found -> Response(404, FALSE, "Task not found", <<>>, -1, "")
    [] OTHER -> Response(200, TRUE, "", r.ret, -1, "")

\* The Express routes: res.json / res.status(..).json of each handler; a
\* throw inside a handler reaches Express's default error handler (500).
HttpResponse(name, r) ==
  CASE r.threw -> Response(500, FALSE, "Internal Server Error", <<>>, -1, "")
    [] name = "list" ->
         Response(200, TRUE, "", r.ret, IF r.found THEN Len(r.ret) ELSE -1, "")
    [] name = "create" -> Response(201, TRUE, "", r.ret, -1, "")
    [] ~r.found -> Response(404, FALSE, "Task not found", <<>>, -1, "")
    [] OTHER -> Response(200, TRUE, "", r.ret, -1, "")

\* A tool handler that would forget isError on its not-found answers.
McpResponseNotFoundOk(name, r, id) ==
  CASE r.threw -> Response(0, FALSE, "Error", <<>>, -1, "")
    [] name = "list" ->
         IF Len(r.ret) > 0 THEN Response(0, TRUE, "Found", r.ret, Len(r.ret), "")
         ELSE Response(0, TRUE, "No tasks found", <<>>, -1, "")
    [] name = "create" -> Response(0, TRUE, "Task created successfully", r.ret, -1, "")
    [] ~r.found -> Response(0, TRUE, "not found", <<>>, -1, id)
    [] name = "get" -> Response(0, TRUE, "Task", r.ret, -1, "")
    [] name = "complete" -> Response(0, TRUE, "Task completed", r.ret, -1, "")
    [] OTHER -> Response(0, TRUE, "Task deleted", r.ret, -1, "")

\* The tool handler's return values; the catch turns a throw into isError.
McpResponse(name, r, id) ==
  CASE r.threw -> Response(0, FALSE, "Error", <<>>, -1, "")
    [] name = "list" ->
         IF Len(r.ret) > 0 THEN Response(0, TRUE, "Found", r.ret, Len(r.ret), "")
         ELSE Response(0, TRUE, "No tasks found", <<>>, -1, "")
    [] name = "create" -> Response(0, TRUE, "Task created successfully", r.ret, -1, "")
    [] ~r.found -> Response(0, FALSE, "not found", <<>>, -1, id)
    [] name = "get" -> Response(0, TRUE, "Task", r.ret, -1, "")
    [] name = "complete" -> Response(0, TRUE, "Task completed", r.ret, -1, "")
    [] OTHER -> Response(0, TRUE, "Task deleted", r.ret, -1, "")

\* if (!args): the answer to an invocation without an arguments object.
NoArgumentsResponse == Response(0, FALSE, "No arguments provided", <<>>, -1, "")

\* A default case that would not quote the tool name.
UnknownToolResponseUnnamed(name) == Response(0, FALSE, "Unknown tool", <<>>, -1, "")

\* The default case of the switch: the answer quotes the tool name.
UnknownToolResponse(name) == Response(0, FALSE, "Unknown tool", <<>>, -1, name)

Respond(adapter, name, r, id) ==
  IF adapter = "http" THEN HttpResponse(name, r) ELSE McpResponse(name, r, id)

\* The taskAPI operation a route or a tool case calls.
TaskApiCall(name, ld, title, id, t1, t2) ==
  CASE name = "create" -> createTask(ld, title, t1, t2)
    [] name = "list" -> listTasks(ld)
    [] name = "get" -> getTask(ld, id)
    [] name = "complete" -> completeTask(ld, id)
    [] OTHER -> deleteTask(ld, id)

\* A handler run from its taskAPI call to its answer, for a request that passed
\* the adapter's argument checks: the file it leaves and the response it sends,
\* given the file f it finds, the two clock readings and the outcome of the
\* write (if it writes).
Handler(adapter, f, name, title, id, t1, t2, outcome) ==
  LET r == TaskApiCall(name, loadTasks(f), title, id, t1, t2)
      done == IF r.saves
              THEN ApiResult(saveTasksThrows(outcome), r.found, r.ret, TRUE, r.tasks)
              ELSE r
  IN  [file |-> IF r.saves THEN saveTasks(f, r.tasks, outcome) ELSE f,
       resp |-> Respond(adapter, name, done, id)]

\* ------------------------------------------------------------------ inputs
TitleInputs == {"a", "", Undefined}
IdInputs == {ToString(n) : n \in 0..MaxClock}
ToolNames == {"create_task", "list_tasks", "get_task", "complete_task", "delete_task"}
ToolInputs == ToolNames \cup {"rename_task"}

\* The ids a tool is invoked with: one no record has, and the id of the
\* records created in the first millisecond.
ToolIdInputs == {ToString(0), ToString(1)}

\* request.params.arguments: absent, or an object that may lack title / id.
NoArgs == [present |-> FALSE, title |-> Undefined, id |-> Undefined]
ArgsInputs ==
  {NoArgs} \cup
  {[present |-> TRUE, title |-> t, id |-> Undefined] : t \in {"a", Undefined}} \cup
  {[present |-> TRUE, title |-> Undefined, id |-> i] : i \in ToolIdInputs}

\* ------------------------------------------------------------------- state
VARIABLES
  file,      \* the content of TASKS_FILE
  now,       \* the system clock, in milliseconds
  mode,      \* per process: process.argv[2], or "off" for a process not started
  pend,      \* per process: the mutating call stopped in front of its write
  last,      \* the request answered by the latest step
  served,    \* the number of requests received so far
  tally      \* what the HTTP clients were told and whether a write failed

vars == <<file, now, mode, pend, last, served, tally>>

\* Mode selection: "--http" starts the HTTP server only, "--mcp" the tool
\* server only, anything else (here "") both.
HttpOn(p) == mode[p] \in {"--http", ""}
McpOn(p) == mode[p] \in {"--mcp", ""}

\* The save of another process that fell between a call's load and its own
\* save: which operation it was, the id of the record it returned, whether it
\* was answered as a success and whether it had loaded the same file content
\* as this call.
Rival(name, key, ok, sameSrc) ==
  [name |-> name, key |-> key, ok |-> ok, sameSrc |-> sameSrc]

NoRival == Rival("none", Undefined, FALSE, FALSE)

\* A mutating call between its loadTasks and its saveTasks. src is the file it
\* loaded, ret the record it will return, tasks the array it hands to
\* saveTasks, rival the latest save of another process since the load.
PendRecord(proc, adapter, name, title, id, src, r, rival) ==
  [proc |-> proc, adapter |-> adapter, name |-> name, title |-> title,
   id |-> id, src |-> src, found |-> r.found, ret |-> r.ret, tasks |-> r.tasks,
   rival |-> rival]

NoPend ==
  PendRecord("none", "none", "none", Undefined, Undefined, AbsentFile,
             ApiResult(FALSE, FALSE, <<>>, FALSE, <<>>), NoRival)

\* An answered request. tool is the tool name of a tool invocation, hasArgs
\* whether it carried an arguments object, name the taskAPI operation it
\* called ("none" on the tool adapter when it called none), wrote the outcome
\* of the write ("none" when saveTasks was not reached), changed whether the
\* step that answered it changed the file, resp the response sent.
OpRecord(proc, adapter, tool, hasArgs, name, title, id, wrote, changed, rival, resp) ==
  [proc |-> proc, adapter |-> adapter, tool |-> tool, hasArgs |-> hasArgs,
   name |-> name, title |-> title, id |-> id, wrote |-> wrote,
   changed |-> changed, rival |-> rival, resp |-> resp]

NoOp ==
  OpRecord("none", "none", "none", FALSE, "none", Undefined, Undefined, "none",
           FALSE, NoRival, NoResponse)

\* What the clients of an HTTP-only session on an initially empty store have
\* been told: created counts the 201 answers of POST /tasks, deleted the 200
\* answers of DELETE /tasks/:id, clean says that no writeFileSync has thrown.
\* http is FALSE, and nothing is counted, once the session is not of that
\* kind: the store held something else at the start, or a tool was invoked.
Tally(http, created, deleted, clean) ==
  [http |-> http, created |-> created, deleted |-> deleted, clean |-> clean]

NoTally == Tally(FALSE, 0, 0, TRUE)

\* The tally after a request on the adapter is received.
Receive(t, adapter) == IF adapter = "http" THEN t ELSE NoTally

\* The tally after a suspended call is answered with resp.
Count(t, name, resp, outcome) ==
  IF ~t.http THEN NoTally
  ELSE Tally(TRUE,
             t.created + (IF name = "create" /\ resp.status = 201 THEN 1 ELSE 0),
             t.deleted + (IF name = "delete" /\ resp.status = 200 THEN 1 ELSE 0),
             t.clean /\ outcome = "ok")

\* The tool that maps to a taskAPI operation.
ToolOf(adapter, name) ==
  IF adapter = "mcp" THEN name \o "_task" \o (IF name = "list" THEN "s" ELSE "")
  ELSE "none"

InitFiles == {AbsentFile, CorruptFile, NonArrayFile, JSONstringify(<<>>)}

InitStore ==
  /\ file \in InitFiles
  /\ now = 1
  /\ pend = [p \in Procs |-> NoPend]
  /\ last = NoOp
  /\ served = 0
  /\ tally = IF file \in {AbsentFile, JSONstringify(<<>>)}
             THEN Tally(TRUE, 0, 0, TRUE) ELSE NoTally

\* A default mode that would run the two servers in two processes.
InitForked ==
  /\ InitStore
  /\ mode = [p \in Procs |-> IF p = "p1" THEN "--http" ELSE "--mcp"]

\* One server process in the default mode, serving both adapters.
Init ==
  /\ InitStore
  /\ mode = [p \in Procs |-> IF p = "p1" THEN "" ELSE "off"]

\* Two server processes started from the same directory, hence sharing
\* TASKS_FILE: an HTTP server and the tool server a desktop client spawns.
InitShared ==
  /\ InitStore
  /\ mode = [p \in Procs |-> IF p = "p1" THEN "--http" ELSE "--mcp"]

\* The process is in its event loop, not inside a handler.
Idle(p) == pend[p].proc = "none"

\* The number of requests a run explores: fewer when two processes interleave.
Budget ==
  IF \E p \in Procs : mode[p] = "off" THEN MaxRequests ELSE MaxSharedRequests

\* A taskAPI call up to and excluding its saveTasks: it either returns (or
\* throws) and the adapter responds, or it stops in front of the write.
Call(p, adapter, name, title, id, r) ==
  /\ Idle(p)
  /\ IF adapter = "http" THEN HttpOn(p) ELSE McpOn(p)
  /\ served < Budget
  /\ served' = served + 1
  /\ IF r.saves
     THEN /\ pend' = [pend EXCEPT ![p] =
                        PendRecord(p, adapter, name, title, id, file, r, NoRival)]
          /\ UNCHANGED last
     ELSE /\ last' = OpRecord(p, adapter, ToolOf(adapter, name), TRUE, name, title,
                              id, "none", FALSE, NoRival,
                              Respond(adapter, name, r, id))
          /\ UNCHANGED pend
  /\ tally' = Receive(tally, adapter)
  /\ UNCHANGED <<file, mode>>

\* A request the adapter answers without calling taskAPI.
Reject(p, adapter, tool, hasArgs, name, title, id, resp) ==
  /\ Idle(p)
  /\ IF adapter = "http" THEN HttpOn(p) ELSE McpOn(p)
  /\ served < Budget
  /\ served' = served + 1
  /\ last' = OpRecord(p, adapter, tool, hasArgs, name, title, id, "none", FALSE,
                      NoRival, resp)
  /\ tally' = Receive(tally, adapter)
  /\ UNCHANGED <<file, now, mode, pend>>

\* createTask reads the clock twice (Date.now(), new Date()); the clock may
\* advance by a millisecond in between.
CallCreate(p, adapter, title) ==
  \E t2 \in {now, now + 1} :
    /\ t2 <= MaxClock
    /\ Len(loadTasks(file).items) < MaxTasks
    /\ Call(p, adapter, "create", title, Undefined,
            createTask(loadTasks(file), title, now, t2))
    /\ now' = t2

\* GET /tasks
HttpListTasks(p) ==
  /\ Call(p, "http", "list", Undefined, Undefined, listTasks(loadTasks(file)))
  /\ UNCHANGED now

\* POST /tasks
HttpCreateTask(p) ==
  \E title \in TitleInputs :
    IF ~Truthy(title)
    THEN Reject(p, "http", "none", TRUE, "create", title, Undefined,
                Response(400, FALSE, "Title is required", <<>>, -1, ""))
    ELSE CallCreate(p, "http", title)

\* GET /tasks/:id
HttpGetTask(p) ==
  \E id \in IdInputs :
    /\ Call(p, "http", "get", Undefined, id, getTask(loadTasks(file), id))
    /\ UNCHANGED now

\* PATCH /tasks/:id/complete
HttpCompleteTask(p) ==
  \E id \in IdInputs :
    /\ Call(p, "http", "complete", Undefined, id, completeTask(loadTasks(file), id))
    /\ UNCHANGED now

\* DELETE /tasks/:id
HttpDeleteTask(p) ==
  \E id \in IdInputs :
    /\ Call(p, "http", "delete", Undefined, id, deleteTask(loadTasks(file), id))
    /\ UNCHANGED now

\* The CallToolRequestSchema handler.
McpCallTool(p) ==
  \E name \in ToolInputs, args \in ArgsInputs :
    IF ~args.present
    THEN Reject(p, "mcp", name, FALSE, "none", args.title, args.id,
                NoArgumentsResponse)
    ELSE CASE name = "create_task" -> CallCreate(p, "mcp", args.title)
           [] name = "list_tasks" ->
                /\ Call(p, "mcp", "list", Undefined, Undefined,
                        listTasks(loadTasks(file)))
                /\ UNCHANGED now
           [] name = "get_task" ->
                /\ Call(p, "mcp", "get", Undefined, args.id,
                        getTask(loadTasks(file), args.id))
                /\ UNCHANGED now
           [] name = "complete_task" ->
                /\ Call(p, "mcp", "complete", Undefined, args.id,
                        completeTask(loadTasks(file), args.id))
                /\ UNCHANGED now
           [] name = "delete_task" ->
                /\ Call(p, "mcp", "delete", Undefined, args.id,
                        deleteTask(loadTasks(file), args.id))
                /\ UNCHANGED now
           [] OTHER ->
                Reject(p, "mcp", name, TRUE, "none", args.title, args.id,
                       UnknownToolResponse(name))

\* The saveTasks of a mutating call and the rest of its handler: the write
\* succeeds or fails, the call returns its in-memory result, the adapter
\* responds.
SaveTasks(p) ==
  /\ ~Idle(p)
  /\ \E outcome \in WriteOutcomes :
       LET o == pend[p]
           r == ApiResult(saveTasksThrows(outcome), o.found, o.ret, TRUE, o.tasks)
           wrote == IF outcome = "ok" THEN "ok" ELSE "failed"
           f == saveTasks(file, o.tasks, outcome)
           resp == Respond(o.adapter, o.name, r, o.id)
       IN  /\ file' = f
           /\ last' = OpRecord(p, o.adapter, ToolOf(o.adapter, o.name), TRUE,
                               o.name, o.title, o.id, wrote, f # file, o.rival,
                               resp)
           /\ tally' = Count(tally, o.name, resp, outcome)
           /\ pend' = [q \in Procs |->
                IF q = p THEN NoPend
                ELSE IF ~Idle(q) /\ f # file
                     THEN [pend[q] EXCEPT
                             !.rival = Rival(o.name, Get(o.ret[1], "id"), resp.ok,
                                             o.src = pend[q].src)]
                     ELSE pend[q]]
  /\ UNCHANGED <<now, mode, served>>

\* The clock advances.
Tick ==
  /\ now < MaxClock
  /\ now' = now + 1
  /\ UNCHANGED <<file, mode, pend, last, served, tally>>

Next ==
  \/ \E p \in Procs : HttpListTasks(p)
  \/ \E p \in Procs : HttpCreateTask(p)
  \/ \E p \in Procs : HttpGetTask(p)
  \/ \E p \in Procs : HttpCompleteTask(p)
  \/ \E p \in Procs : HttpDeleteTask(p)
  \/ \E p \in Procs : McpCallTool(p)
  \/ \E p \in Procs : SaveTasks(p)
  \/ Tick

Spec == Init /\ [][Next]_vars

SpecShared == InitShared /\ [][Next]_vars

\* ------------------------------------------------------- steps and helpers
\* The records a load of file content f yields, written without loadTasks: the
\* elements of the array, none for any other content.
Items(f) == IF f.kind = "array" THEN f.items ELSE <<>>

\* No record of f has the id.
NoMatch(f, id) == \A k \in 1..Len(Items(f)) : Get(Items(f)[k], "id") # id

\* The position of the first record of a sequence with the id (0: none).
FirstMatch(items, id) ==
  IF \A k \in 1..Len(items) : Get(items[k], "id") # id THEN 0
  ELSE CHOOSE k \in 1..Len(items) :
         /\ Get(items[k], "id") = id
         /\ \A j \in 1..(k - 1) : Get(items[j], "id") # id

\* a.k === b.k for two objects, a missing key reading as undefined.
FieldEq(a, b, k) ==
  IF k \in DOMAIN a /\ k \in DOMAIN b THEN a[k] = b[k]
  ELSE IF k \in DOMAIN a THEN IsUndefined(a, k)
  ELSE IF k \in DOMAIN b THEN IsUndefined(b, k)
  ELSE TRUE

\* Two records agree on the four fields of a task.
SameTask(a, b) == \A k \in TaskKeys : FieldEq(a, b, k)

\* Two collections agree record by record, in order.
SameTasks(xs, ys) ==
  /\ Len(xs) = Len(ys)
  /\ \A k \in 1..Len(xs) : SameTask(xs[k], ys[k])

\* This step receives a request.
Received == served' = served + 1

\* This step receives a request and answers it at once; last' describes it.
AnsweredAtOnce == Received /\ pend' = pend

\* This step receives a request of process p that stops in front of its write.
Suspended(p) == Idle(p) /\ ~Idle(p)'

\* This step is the write of p's suspended call and its answer; pend[p]
\* describes the call, last' the answer.
Saved(p) == ~Idle(p) /\ served' = served /\ now' = now /\ last'.proc = p

\* The adapter's not-found answer.
IsNotFound(resp) ==
  /\ ~resp.ok
  /\ resp.msg \in {"Task not found", "not found"}
  /\ resp.status \in {404, 0}

\* The adapter's validation error.
IsValidationError(resp) ==
  /\ ~resp.ok
  /\ resp.msg \in {"Title is required", "No arguments provided"}
  /\ resp.status \in {400, 0}

\* The adapter's success answer carrying exactly the record rec.
IsSuccessWith(adapter, status, resp, rec) ==
  /\ resp.ok
  /\ resp.status = (IF adapter = "http" THEN status ELSE 0)
  /\ Len(resp.data) = 1
  /\ SameTask(resp.data[1], rec)

\* ------------------------------------------------------------------ claims

\* C1: every createTask with a non-empty title answers with a record that has
\* completed = false, a populated id and a populated createdAt, and the list
\* read from the store right after it contains that record.
Claim_C1 ==
  (last.name = "create" /\ Truthy(last.title)) =>
    /\ last.resp.ok
    /\ Len(last.resp.data) = 1
    /\ last.resp.data[1].completed = FALSE
    /\ Truthy(last.resp.data[1].id)
    /\ Truthy(last.resp.data[1].createdAt)
    /\ \E k \in 1..Len(Items(file)) : SameTask(Items(file)[k], last.resp.data[1])

\* C2: on both adapters a create request whose title is empty or missing is
\* answered with a validation error and creates no record: no such call
\* reaches the store and the file is left as it was.
Claim_C2 ==
  [][ /\ \A p \in Procs :
           Suspended(p) =>
             ~(pend'[p].name = "create" /\ ~Truthy(pend'[p].title))
      /\ (/\ AnsweredAtOnce
          /\ last'.name = "create" \/ last'.tool = "create_task"
          /\ ~Truthy(last'.title))
           => (IsValidationError(last'.resp) /\ file' = file) ]_vars

\* C3: for every file content and every id that matches no record, getTask,
\* completeTask and deleteTask answer not-found, write nothing and leave the
\* file as it was.
Claim_C3 ==
  [][ /\ \A p \in Procs :
           Suspended(p) =>
             ~(/\ pend'[p].name \in {"complete", "delete"}
               /\ NoMatch(file, pend'[p].id))
      /\ (/\ AnsweredAtOnce
          /\ last'.name \in {"get", "complete", "delete"}
          /\ NoMatch(file, last'.id))
           => (/\ IsNotFound(last'.resp)
               /\ last'.wrote = "none"
               /\ file' = file) ]_vars

\* The record rec with completed = true and every other field as it was.
IsCompletedOf(done, rec) ==
  /\ done.completed = TRUE
  /\ \A k \in TaskKeys \ {"completed"} : FieldEq(done, rec, k)

\* C4 as stated: every completeTask on an id present in the collection is
\* answered with the updated record, the persisted record has completed =
\* true, and the persisted collection is one on which a second completeTask for
\* the id succeeds and changes nothing (its first match is already completed).
Orig_C4 ==
  [][ \A p \in Procs :
        (Saved(p) /\ pend[p].name = "complete") =>
          LET src == Items(pend[p].src)
              j == FirstMatch(src, pend[p].id)
              k == FirstMatch(Items(file'), pend[p].id)
          IN  /\ j # 0
              /\ IsSuccessWith(pend[p].adapter, 200, last'.resp, SetCompleted(src[j]))
              /\ k # 0
              /\ Items(file')[k].completed = TRUE ]_vars

\* C4 amended: when its write succeeds, a completeTask on an id present in the
\* collection it loaded is answered with the updated record and persists that
\* collection with completed = true on the first record with the id and every
\* other record as it was; when that record was already completed (a second
\* completeTask) the call succeeds as well and the persisted collection equals
\* the one it loaded.
Thm_C4 ==
  [][ \A p \in Procs :
        (Saved(p) /\ pend[p].name = "complete" /\ last'.wrote = "ok") =>
          LET src == Items(pend[p].src)
              j == FirstMatch(src, pend[p].id)
              new == Items(file')
          IN  /\ j # 0
              /\ last'.resp.ok
              /\ last'.resp.status = (IF pend[p].adapter = "http" THEN 200 ELSE 0)
              /\ Len(last'.resp.data) = 1
              /\ IsCompletedOf(last'.resp.data[1], src[j])
              /\ Len(new) = Len(src)
              /\ IsCompletedOf(new[j], src[j])
              /\ \A i \in 1..Len(src) : i # j => SameTask(new[i], src[i])
              /\ src[j].completed = TRUE => file' = pend[p].src ]_vars

\* A second completeTask on an id has succeeded and left the file as it was.
Witness_C4 ==
  /\ last.name = "complete"
  /\ last.wrote = "ok"
  /\ last.resp.ok
  /\ ~last.changed
  /\ FirstMatch(Items(file), last.id) # 0
  /\ Items(file)[FirstMatch(Items(file), last.id)].completed = TRUE

\* C5, for the deletes whose write succeeds: deleteTask on an id present in
\* the collection returns the first record with the id, the collection gets
\* shorter by exactly one, every other record is kept in place, and a getTask
\* for the id right after it finds nothing.
Claim_C5 ==
  [][ \A p \in Procs :
        (Saved(p) /\ pend[p].name = "delete" /\ last'.wrote = "ok") =>
          LET src == Items(pend[p].src)
              j == FirstMatch(src, pend[p].id)
              new == Items(file')
          IN  /\ j # 0
              /\ IsSuccessWith(pend[p].adapter, 200, last'.resp, src[j])
              /\ Len(new) = Len(src) - 1
              /\ \A i \in 1..Len(new) :
                   SameTask(new[i], IF i < j THEN src[i] ELSE src[i + 1])
              /\ NoMatch(file', pend[p].id) ]_vars

\* C6: no two records of the persisted collection have the same id.
Claim_C6 ==
  \A i, j \in 1..Len(Items(file)) :
    i # j => Get(Items(file)[i], "id") # Get(Items(file)[j], "id")

\* The collection new is the collection src after the call of pending record o
\* alone: src with the new record appended (create), with the first match
\* completed (complete) or without the first match (delete).
OwnEffect(o, src, new) ==
  LET j == FirstMatch(src, o.id)
  IN  CASE o.name = "create" ->
             /\ Len(new) = Len(src) + 1
             /\ \A i \in 1..Len(src) : SameTask(new[i], src[i])
             /\ SameTask(new[Len(new)], o.ret[1])
        [] o.name = "complete" ->
             /\ Len(new) = Len(src)
             /\ IsCompletedOf(new[j], src[j])
             /\ \A i \in 1..Len(src) : i # j => SameTask(new[i], src[i])
        [] OTHER ->
             /\ Len(new) = Len(src) - 1
             /\ \A i \in 1..Len(new) :
                  SameTask(new[i], IF i < j THEN src[i] ELSE src[i + 1])

\* C7: when two mutating calls of two processes have loaded the same
\* collection and both are answered as successes, the save that comes second
\* leaves the file equal to the result its own call computed from that
\* collection: nothing of the first save is merged in, so the first call's
\* effect is lost unless the second result happens to contain it.
Thm_C7 ==
  [][ \A p \in Procs :
        (/\ Saved(p)
         /\ last'.wrote = "ok"
         /\ pend[p].rival.name # "none"
         /\ pend[p].rival.ok
         /\ pend[p].rival.sameSrc) =>
          /\ last'.resp.ok
          /\ file'.kind = "array"
          /\ OwnEffect(pend[p], Items(pend[p].src), Items(file')) ]_vars

\* A lost update: the first call created a record and was answered as a
\* success, the second call loaded the same collection, saved after it and was
\* answered as a success, and the file holds no record with the first's id.
Witness_C7 ==
  /\ last.wrote = "ok"
  /\ last.resp.ok
  /\ last.rival.name = "create"
  /\ last.rival.ok
  /\ last.rival.sameSrc
  /\ NoMatch(file, last.rival.key)

\* The answer to p's suspended call is the success answer of its adapter with
\* the record the call computed in memory.
AnsweredInMemoryResult(p) ==
  IsSuccessWith(pend[p].adapter, IF pend[p].name = "create" THEN 201 ELSE 200,
                last'.resp, pend[p].ret[1])

\* C8 as stated: a failed write is swallowed, the call still answers with its
\* in-memory result as a success, the file keeps its content and the process
\* is back in its event loop.
Orig_C8 ==
  [][ \A p \in Procs :
        (Saved(p) /\ last'.wrote = "failed") =>
          /\ AnsweredInMemoryResult(p)
          /\ file' = file
          /\ Idle(p)' ]_vars

\* C8 amended: a failed write is swallowed, the call still answers with its
\* in-memory result as a success and the process is back in its event loop;
\* the file either keeps its content or is left truncated by the interrupted
\* write, in which case it no longer parses and loads as the empty collection.
Thm_C8 ==
  [][ \A p \in Procs :
        (Saved(p) /\ last'.wrote = "failed") =>
          /\ AnsweredInMemoryResult(p)
          /\ \/ file' = file
             \/ file'.kind = "corrupt" /\ loadTasks(file').items = <<>>
          /\ Idle(p)' ]_vars

\* A write failed after truncating the file and the call was answered as a
\* success.
Witness_C8 ==
  /\ last.wrote = "failed"
  /\ last.changed
  /\ last.resp.ok
  /\ file.kind = "corrupt"

\* C9: when the file is absent or its content is not a task array, every
\* operation behaves as on the empty collection and none answers with an
\* error: list returns the empty list, get / complete / delete answer
\* not-found, and create hands saveTasks a collection holding only the new
\* record.
Claim_C9 ==
  [][ (Received /\ file.kind # "array") =>
        IF pend' = pend
        THEN /\ last'.resp.status # 500
             /\ last'.resp.msg # "Error"
             /\ last'.name = "list" =>
                  /\ last'.resp.ok
                  /\ last'.resp.data = <<>>
                  /\ last'.adapter = "http" => last'.resp.count = 0
             /\ last'.name \in {"get", "complete", "delete"} =>
                  IsNotFound(last'.resp)
             /\ last'.name = "create" => IsValidationError(last'.resp)
        ELSE \A p \in Procs :
               Suspended(p) =>
                 /\ pend'[p].name = "create"
                 /\ Len(pend'[p].tasks) = 1
                 /\ SameTask(pend'[p].tasks[1], pend'[p].ret[1]) ]_vars

Malformed(o) ==
  \/ ~o.hasArgs /\ o.tool # "list_tasks"
  \/ o.tool \in {"get_task", "complete_task", "delete_task"} /\ o.id = Undefined
  \/ o.tool = "create_task" /\ o.title = Undefined

\* C11: a tool invocation with malformed or missing arguments is answered
\* with an error-flagged response before any taskAPI operation is called (no
\* load, no save, the file as it was), and a list_tasks invocation is not
\* rejected for lacking arguments: it reaches listTasks.
Claim_C11 ==
  [][ /\ \A p \in Procs :
           (Suspended(p) /\ pend'[p].adapter = "mcp") =>
             /\ pend'[p].name = "create" => pend'[p].title # Undefined
             /\ pend'[p].name \in {"complete", "delete"} => pend'[p].id # Undefined
      /\ (AnsweredAtOnce /\ last'.adapter = "mcp") =>
           /\ Malformed(last') =>
                /\ ~last'.resp.ok
                /\ last'.name = "none"
                /\ file' = file
           /\ last'.tool = "list_tasks" => last'.name = "list"
    ]_vars


\* This step answers a tool invocation whose name is none of the five tools.
UnknownToolAnswered ==
  AnsweredAtOnce /\ last'.adapter = "mcp" /\ last'.tool \notin ToolNames

\* C12 as stated: every invocation of an unknown tool, with or without an
\* arguments object, is answered with an error-flagged response that names
\* the tool, and the file is left as it was.
Orig_C12 ==
  [][ UnknownToolAnswered =>
        /\ ~last'.resp.ok
        /\ last'.resp.msg = "Unknown tool"
        /\ last'.resp.ref = last'.tool
        /\ file' = file
    ]_vars

\* C12, amended: an invocation of an unknown tool calls no taskAPI operation,
\* leaves the file as it was and is answered with an error-flagged response;
\* the response names the tool when the invocation carries an arguments
\* object, and is "No arguments provided" when it carries none.
Thm_C12 ==
  [][ /\ \A p \in Procs :
           (Suspended(p) /\ pend'[p].adapter = "mcp") =>
             ToolOf("mcp", pend'[p].name) \in ToolNames
      /\ UnknownToolAnswered =>
           /\ ~last'.resp.ok
           /\ last'.name = "none"
           /\ last'.wrote = "none"
           /\ file' = file
           /\ last'.hasArgs =>
                last'.resp.msg = "Unknown tool" /\ last'.resp.ref = last'.tool
           /\ ~last'.hasArgs => last'.resp = NoArgumentsResponse
    ]_vars

\* An unknown tool invoked with an id on a store that holds a record: the
\* answer names the tool.
Witness_C12 ==
  /\ last.adapter = "mcp"
  /\ last.tool = "rename_task"
  /\ last.hasArgs
  /\ last.id # Undefined
  /\ last.resp.ref = "rename_task"
  /\ Len(Items(file)) > 0


\* The latest answer is that of a GET /tasks in an HTTP-only session that
\* started on an empty store.
HttpListAnswered ==
  tally.http /\ last.adapter = "http" /\ last.name = "list" /\ last.resp.ok

\* C13 as stated: in an HTTP-only session that started on an empty store, the
\* count a list request reports is the length of its data and is the number of
\* creates answered 201 minus the number of deletes answered 200.
Orig_C13 ==
  HttpListAnswered =>
    /\ last.resp.count = Len(last.resp.data)
    /\ last.resp.count = tally.created - tally.deleted

\* C13, amended: the count is always the length of the data, and it is the
\* number of creates answered 201 minus the number of deletes answered 200
\* as long as no write of the session has failed.
Thm_C13 ==
  HttpListAnswered =>
    /\ last.resp.count = Len(last.resp.data)
    /\ tally.clean => last.resp.count = tally.created - tally.deleted

\* The list that ends create, list, complete, delete, list: one create was
\* answered 201, one delete 200, and the list reports count 0.
Witness_C13 ==
  /\ HttpListAnswered
  /\ tally.clean
  /\ tally.created = 1
  /\ tally.deleted = 1
  /\ last.resp.count = 0
  /\ served = 5


\* The instant a createdAt string stands for.
Stamp(s) == CHOOSE n \in 0..(MaxClock + 1) : toISOString(n) = s

\* The two clock readings of the suspended call o, read off the record it
\* built (any instants for a call that is not a create).
ReadingId(o) ==
  IF o.name = "create" THEN CHOOSE n \in 0..(MaxClock + 1) : ToString(n) = o.ret[1].id
  ELSE 0

ReadingCreatedAt(o) == IF o.name = "create" THEN Stamp(o.ret[1].createdAt) ELSE 0

\* The outcomes of writeFileSync that a write reported as wrote stands for.
OutcomesOf(wrote) == IF wrote = "ok" THEN {"ok"} ELSE WriteOutcomes \ {"ok"}

\* The kind of an answer: success, not-found, or another error.
OutcomeKind(resp) ==
  IF resp.ok THEN "success" ELSE IF IsNotFound(resp) THEN "not-found" ELSE "error"

\* Two handler runs leave the same file and send answers of the same kind
\* with the same record(s).
AdaptersAgree(h, g) ==
  /\ h.file = g.file
  /\ OutcomeKind(h.resp) = OutcomeKind(g.resp)
  /\ SameTasks(h.resp.data, g.resp.data)

\* The other adapter.
Other(adapter) == IF adapter = "http" THEN "mcp" ELSE "http"

\* Arguments both adapters accept: a non-empty string title, a string id.
ValidArgs(name, title, id) ==
  /\ name = "create" => Truthy(title)
  /\ name \in {"get", "complete", "delete"} => id # Undefined

InsertionOrder(items) ==
  \A i, j \in 1..Len(items) :
    i < j => Stamp(items[i].createdAt) <= Stamp(items[j].createdAt)

\* The sequence without its element at position j.
Without(items, j) == SubSeq(items, 1, j - 1) \o SubSeq(items, j + 1, Len(items))

\* Two records agree on id, title and createdAt.
SameIdentity(a, b) == \A k \in {"id", "title", "createdAt"} : FieldEq(a, b, k)

\* C15: a successful write of createTask leaves the records it loaded, in
\* their order, followed by the new record; one of completeTask leaves the
\* same records at the same positions; one of deleteTask leaves the loaded
\* records without the first match, in their order; and after every step the
\* persisted records stand in the order of their creation.
Thm_C15 ==
  [][ /\ file' # file => InsertionOrder(Items(file'))
      /\ \A p \in Procs :
           (Saved(p) /\ last'.wrote = "ok") =>
             LET o == pend[p]
                 old == Items(o.src)
                 new == Items(file')
             IN  CASE o.name = "create" ->
                        /\ Len(new) = Len(old) + 1
                        /\ SameTasks(SubSeq(new, 1, Len(old)), old)
                        /\ SameTask(new[Len(new)], o.ret[1])
                   [] o.name = "complete" ->
                        /\ Len(new) = Len(old)
                        /\ \A k \in 1..Len(old) : SameIdentity(new[k], old[k])
                   [] OTHER ->
                        /\ FirstMatch(old, o.id) > 0
                        /\ SameTasks(new, Without(old, FirstMatch(old, o.id)))
    ]_vars

\* A create was written onto a collection of one record: the file holds that
\* record first and the new, different record second.
Witness_C15 ==
  /\ last.name = "create"
  /\ last.wrote = "ok"
  /\ Len(Items(file)) = 2
  /\ SameTask(Items(file)[2], last.resp.data[1])
  /\ ~SameTask(Items(file)[1], Items(file)[2])


\* The persisted collection after a completeTask step is the one before it,
\* but for the completed field of the first record with the id.
OnlyCompletedOfFirst(old, new, id) ==
  /\ Len(new) = Len(old)
  /\ \A k \in 1..Len(old) :
       IF k = FirstMatch(old, id) THEN SameIdentity(new[k], old[k])
       ELSE SameTask(new[k], old[k])

Thm_C17 ==
  [][ /\ \A p \in Procs :
           /\ Suspended(p) => pend'[p].name \notin {"list", "get"}
           /\ Saved(p) => last'.name \notin {"list", "get"}
      /\ (AnsweredAtOnce /\ last'.name \in {"list", "get"}) =>
           /\ file' = file
           /\ last'.wrote = "none"
           /\ ~last'.changed
    ]_vars

\* A get request was the first request on a file that does not parse: the
\* load failed, the request was answered, the file is as it was.
Witness_C17 ==
  /\ last.name = "get"
  /\ served = 1
  /\ file = CorruptFile
  /\ IsNotFound(last.resp)


\* This step changes nothing but the clock.
OnlyClock == file' = file /\ pend' = pend /\ last' = last /\ served' = served

\* C18: in one process serving both adapters, the load, the mutation and the
\* save of an operation are not interleaved with another handler: while a
\* call stands in front of its write the only step besides that write is the
\* clock's, the write finds the file the call loaded, and the file it leaves
\* is the result of the operation run on the file as it is, so the mutations
\* take effect one after the other and a written one is never lost.
Thm_C18 ==
  [][ \A p \in Procs :
        /\ ~Idle(p) => (Saved(p) \/ OnlyClock)
        /\ Saved(p) =>
             LET o == pend[p]
             IN  /\ o.src = file
                 /\ o.rival = NoRival
                 /\ last'.wrote = "ok" => OwnEffect(o, Items(file), Items(file'))
                 /\ \E outcome \in OutcomesOf(last'.wrote) :
                      file' = Handler(o.adapter, file, o.name, o.title, o.id,
                                      ReadingId(o), ReadingCreatedAt(o), outcome).file
    ]_vars

\* An HTTP create was written after a tool's create: the file holds the
\* tool's record (only a tool creates a record without title) and then the
\* HTTP client's.
Witness_C18 ==
  /\ last.adapter = "http"
  /\ last.name = "create"
  /\ last.wrote = "ok"
  /\ Len(Items(file)) = 2
  /\ Get(Items(file)[1], "title") = Undefined
  /\ SameTask(Items(file)[2], last.resp.data[1])


\* The position at which the write of pending call o leaves the record that
\* stood at position k of the collection old (0: it removed that record).
PositionAfter(o, old, k, wrote) ==
  LET j == FirstMatch(old, o.id)
  IN  IF o.name = "delete" /\ wrote = "ok" /\ j > 0
      THEN (IF k < j THEN k ELSE IF k = j THEN 0 ELSE k - 1)
      ELSE k

\* Every completed record of the file that the write of p's call leaves in
\* the collection (same id, title and createdAt at its position, and not the
\* record the call itself appended) is still completed after it.
CompletedKept(p) ==
  LET o == pend[p]
      old == Items(file)
      new == Items(file')
  IN  \A k \in 1..Len(old) :
        LET k2 == PositionAfter(o, old, k, last'.wrote)
        IN  (/\ k2 \in 1..Len(new)
             /\ ~(o.name = "create" /\ last'.wrote = "ok" /\ k2 = Len(new))
             /\ SameIdentity(old[k], new[k2])
             /\ old[k].completed) => new[k2].completed

\* C19 as stated: no step sets completed back to false on a record that stays
\* in the collection.
Orig_C19 ==
  [][ \A p \in Procs : Saved(p) => CompletedKept(p) ]_vars

\* C19, amended: only writes change the file, and the write of a call that
\* finds the file it loaded keeps completed = true on every record it leaves
\* in the collection; a write that finds another file than the call loaded
\* (a save of another process fell in between) leaves what the call computed
\* from its own load, so it can bring a record back with completed = false.
Thm_C19 ==
  [][ /\ file' # file => \E p \in Procs : Saved(p)
      /\ \A p \in Procs :
           Saved(p) =>
             /\ pend[p].src = file => CompletedKept(p)
             /\ (pend[p].src # file /\ last'.wrote = "ok") =>
                  OwnEffect(pend[p], Items(pend[p].src), Items(file'))
    ]_vars

\* A create was written, by a call that found the file it had loaded, after
\* the first record had been completed: that record is still completed.
Witness_C19 ==
  /\ last.name = "create"
  /\ last.wrote = "ok"
  /\ last.rival = NoRival
  /\ Len(Items(file)) = 2
  /\ Items(file)[1].completed
  /\ ~Items(file)[2].completed

====
